---- MODULE Spec2Model ----
(***************************************************************************)
(* A model of the CodeJar editor core (src/codejar.ts): the position       *)
(* mapper (visit / save / restore), the key and paste handlers, the        *)
(* undo/redo history and the two debounce timers.                          *)
(*                                                                         *)
(* Text is a sequence of one-character strings.  The content tree is a     *)
(* table of DOM nodes linked by firstChild / nextSibling; node id 0 is     *)
(* "no node" in a link and "the editor element itself" in a selection.     *)
(***************************************************************************)
EXTENDS Integers, Sequences, FiniteSets, TLC

VARIABLES
    editor,     \* this.editor's children: [firstChild, nodes]
    sel,        \* window.getSelection(): anchorNode/Offset, focusNode/Offset
    tab,        \* this.options.tab
    hl,         \* this.highlight, the caller's highlighter
    history,    \* this.history (a JS array: an index may be a hole)
    at,         \* this.at
    focus,      \* this.focus
    recording,  \* the constructor's `recording` flag
    hlTimer,    \* debounceHighlight's pending timeouts
    recTimer,   \* debounceRecordHistory's pending timeouts and their events
    attached,   \* the listeners are registered on the editor
    obs         \* what the last handler saw and did (observation only)

vars == <<editor, sel, tab, hl, history, at, focus, recording,
          hlTimer, recTimer, attached, obs>>

(***************************************************************************)
(* Bounds of the model.                                                    *)
(***************************************************************************)
MaxNodeLen == 2
MaxTextLen == 3
MaxTabLen == 2
MaxPasteLen == 2
MaxRecords == 3
MaxTyped == 2
MaxCycle == 1
MaxReplayed == 2

\* const maxHistory = 300
maxHistory == 300

(***************************************************************************)
(* Small helpers on sequences.                                             *)
(***************************************************************************)
Min(a, b) == IF a < b THEN a ELSE b

Max(a, b) == IF a < b THEN b ELSE a

\* s.substring(i, j) with 0-based i (inclusive) and j (exclusive)
RECURSIVE SeqsUpTo(_, _)
SeqsUpTo(S, n) ==
    IF n = 0 THEN {<<>>}
    ELSE LET shorter == SeqsUpTo(S, n - 1)
         IN  shorter \cup {Append(s, c) : s \in {t \in shorter : Len(t) = n - 1}, c \in S}

(***************************************************************************)
(* DOM nodes.                                                              *)
(***************************************************************************)
TextNode(value, next) ==
    [nodeType |-> "text", nodeValue |-> value, firstChild |-> 0, nextSibling |-> next]

ElemNode(tag, child, next) ==
    [nodeType |-> tag, nodeValue |-> <<>>, firstChild |-> child, nextSibling |-> next]

EmptyEditor == [firstChild |-> 0, nodes |-> <<>>]

IsText(ed, el) == ed.nodes[el].nodeType = "text"

\* el.nodeValue!.length
NodeLen(ed, el) == Len(ed.nodes[el].nodeValue)

(***************************************************************************)
(* visit: a stack of pending nodes; the next sibling is pushed before the  *)
(* first child, so the child is popped first (pre-order).  VisitOrder is   *)
(* the sequence of nodes handed to the visitor when it never stops.        *)
(***************************************************************************)
RECURSIVE VisitLoop(_, _, _, _)
VisitLoop(ed, queue, el, acc) ==
    IF el = 0 THEN acc
    ELSE LET n  == ed.nodes[el]
             q1 == IF n.nextSibling # 0 THEN Append(queue, n.nextSibling) ELSE queue
             q2 == IF n.firstChild # 0 THEN Append(q1, n.firstChild) ELSE q1
         IN  IF q2 = <<>> THEN Append(acc, el)
             ELSE VisitLoop(ed, SubSeq(q2, 1, Len(q2) - 1), q2[Len(q2)], Append(acc, el))

VisitOrder(ed) == VisitLoop(ed, <<>>, ed.firstChild, <<>>)

\* toString(): editor.textContent, the text nodes' values in document order
RECURSIVE ConcatText(_, _, _)
ConcatText(ed, order, i) ==
    IF i > Len(order) THEN <<>>
    ELSE (IF IsText(ed, order[i]) THEN ed.nodes[order[i]].nodeValue ELSE <<>>)
         \o ConcatText(ed, order, i + 1)

TextContent(ed) == ConcatText(ed, VisitOrder(ed), 1)

(***************************************************************************)
(* save(): the visitor of lines 124-154, folded over the visit order.      *)
(***************************************************************************)
NoDirection == "none"

Position(start, end, direction) == [start |-> start, end |-> end, direction |-> direction]

\* One call of the visitor: the new pos and whether it returned 'stop'.
SaveVisitor(ed, s, pos, el) ==
    IF el = s.anchorNode /\ el = s.focusNode
    THEN [pos  |-> Position(pos.start + s.anchorOffset, pos.end + s.focusOffset,
                            IF s.anchorOffset < s.focusOffset THEN "->" ELSE "<-"),
          stop |-> TRUE]
    ELSE LET hit == IF el = s.anchorNode
                    THEN [pos  |-> Position(pos.start + s.anchorOffset, pos.end,
                                            IF pos.direction = NoDirection THEN "->"
                                            ELSE pos.direction),
                          stop |-> pos.direction # NoDirection]
                    ELSE IF el = s.focusNode
                    THEN [pos  |-> Position(pos.start, pos.end + s.focusOffset,
                                            IF pos.direction = NoDirection THEN "<-"
                                            ELSE pos.direction),
                          stop |-> pos.direction # NoDirection]
                    ELSE [pos |-> pos, stop |-> FALSE]
             p   == hit.pos
             len == IF IsText(ed, el) THEN NodeLen(ed, el) ELSE 0
         IN  IF hit.stop THEN hit
             ELSE [pos  |-> Position(IF p.direction # "->" THEN p.start + len ELSE p.start,
                                     IF p.direction # "<-" THEN p.end + len ELSE p.end,
                                     p.direction),
                   stop |-> FALSE]

RECURSIVE SaveWalk(_, _, _, _, _)
SaveWalk(ed, s, order, i, pos) ==
    IF i > Len(order) THEN pos
    ELSE LET r == SaveVisitor(ed, s, pos, order[i])
         IN  IF r.stop THEN r.pos ELSE SaveWalk(ed, s, order, i + 1, r.pos)

Save(ed, s) == SaveWalk(ed, s, VisitOrder(ed), 1, Position(0, 0, NoDirection))

(***************************************************************************)
(* restore(pos).  The result carries the selection after the call, pos as  *)
(* the call leaves it (restore writes to its argument) and whether         *)
(* setBaseAndExtent threw.                                                 *)
(***************************************************************************)
\* lines 165-167: default direction, clamp
ClampPos(pos) ==
    Position(IF pos.start < 0 THEN 0 ELSE pos.start,
             IF pos.end < 0 THEN 0 ELSE pos.end,
             IF pos.direction = NoDirection THEN "->" ELSE pos.direction)

\* lines 170-174: flip start and end if the direction is reversed
FlipPos(pos) ==
    IF pos.direction = "<-" THEN Position(pos.end, pos.start, pos.direction) ELSE pos

\* lines 162-163 with both nodes starting at the editor's first child
NoPlaceFirstChild == [startNode |-> 1, startOffset |-> 0, endNode |-> 1, endOffset |-> 0]

\* lines 162-163: startNode and endNode are undefined, the offsets 0
NoPlace == [startNode |-> 0, startOffset |-> 0, endNode |-> 0, endOffset |-> 0]

\* lines 182-186: the start is taken at the first text node that reaches it
TakeStart(st, pos, el, current, len) ==
    IF current + len >= pos.start /\ st.startNode = 0
    THEN [st EXCEPT !.startNode = el, !.startOffset = pos.start - current]
    ELSE st

\* lines 176-196: the text-node walk
RECURSIVE RestoreWalk(_, _, _, _, _, _)
RestoreWalk(ed, pos, order, i, current, st) ==
    IF i > Len(order) THEN st
    ELSE IF ~IsText(ed, order[i]) THEN RestoreWalk(ed, pos, order, i + 1, current, st)
    ELSE IF current + NodeLen(ed, order[i]) >= pos.start
            /\ current + NodeLen(ed, order[i]) >= pos.end
    THEN [TakeStart(st, pos, order[i], current, NodeLen(ed, order[i]))
             EXCEPT !.endNode = order[i], !.endOffset = pos.end - current]
    ELSE RestoreWalk(ed, pos, order, i + 1, current + NodeLen(ed, order[i]),
                     TakeStart(st, pos, order[i], current, NodeLen(ed, order[i])))

\* lines 199-201 left out: a '<-' selection would come back forward
FlipBackNever(pos, st) == st

\* lines 199-201: flip back the selection
FlipBack(pos, st) ==
    IF pos.direction = "<-"
    THEN [startNode |-> st.endNode, startOffset |-> st.endOffset,
          endNode |-> st.startNode, endOffset |-> st.startOffset]
    ELSE st

\* Selection.setBaseAndExtent: a missing node is a TypeError, an offset
\* outside the node an IndexSizeError
BoundaryOk(ed, node, offset) ==
    /\ node # 0
    /\ offset >= 0
    /\ offset <= NodeLen(ed, node)

\* line 203
SetBaseAndExtent(ed, s, pos, st) ==
    IF BoundaryOk(ed, st.startNode, st.startOffset) /\ BoundaryOk(ed, st.endNode, st.endOffset)
    THEN [sel |-> [anchorNode |-> st.startNode, anchorOffset |-> st.startOffset,
                   focusNode |-> st.endNode, focusOffset |-> st.endOffset],
          pos |-> pos, ok |-> TRUE]
    ELSE [sel |-> s, pos |-> pos, ok |-> FALSE]

RestoreNormalized(ed, s, pos) ==
    SetBaseAndExtent(ed, s, pos,
                     FlipBack(pos, RestoreWalk(ed, pos, VisitOrder(ed), 1, 0, NoPlace)))

Restore(ed, s, pos) == RestoreNormalized(ed, s, FlipPos(ClampPos(pos)))

(***************************************************************************)
(* The host platform: ranges, and the editing commands the handlers call   *)
(* through document.execCommand.  A boundary is a node and an offset: in a *)
(* text node the offset counts characters, in an element (or in the editor *)
(* element, node 0) it counts children.                                    *)
(***************************************************************************)
RECURSIVE IndexIn(_, _, _)
IndexIn(order, el, i) ==
    IF i > Len(order) THEN 0
    ELSE IF order[i] = el THEN i ELSE IndexIn(order, el, i + 1)

\* The document in order, as a sequence of marks: el where node el begins,
\* 0 for each character of a text node, -el where node el ends.
RECURSIVE Marks(_, _)
Marks(ed, el) ==
    IF el = 0 THEN <<>>
    ELSE <<el>>
         \o [i \in 1..NodeLen(ed, el) |-> 0]
         \o Marks(ed, ed.nodes[el].firstChild)
         \o <<0 - el>>
         \o Marks(ed, ed.nodes[el].nextSibling)

\* the k-th node (from 0) of the sibling list that starts at el, 0 if none
RECURSIVE ChildAt(_, _, _)
ChildAt(ed, el, k) ==
    IF el = 0 \/ k <= 0 THEN el ELSE ChildAt(ed, ed.nodes[el].nextSibling, k - 1)

\* The number of marks that precede a boundary: in a text node the offset
\* follows the node's beginning; in an element the boundary lies before the
\* child the offset names, or at the element's end when there is none.
PointIn(ed, marks, node, offset, child) ==
    IF node # 0 /\ IsText(ed, node) THEN IndexIn(marks, node, 1) + offset
    ELSE IF child # 0 THEN IndexIn(marks, child, 1) - 1
    ELSE IF node # 0 THEN IndexIn(marks, 0 - node, 1) - 1
    ELSE Len(marks)

Point(ed, node, offset) ==
    PointIn(ed, Marks(ed, ed.firstChild), node, offset,
            ChildAt(ed, IF node = 0 THEN ed.firstChild ELSE ed.nodes[node].firstChild,
                    offset))

\* the characters among the first p marks
FlatOffsetIn(marks, p) == Cardinality({i \in 1..p : marks[i] = 0})

\* the number of characters of the content that precede a boundary
FlatOffset(ed, node, offset) ==
    FlatOffsetIn(Marks(ed, ed.firstChild), Point(ed, node, offset))

\* does boundary (n1, o1) come before (n2, o2) in document order
Precedes(ed, n1, o1, n2, o2) == Point(ed, n1, o1) <= Point(ed, n2, o2)

\* s.getRangeAt(0): startContainer/startOffset, endContainer/endOffset
GetRange(ed, s) ==
    IF Precedes(ed, s.anchorNode, s.anchorOffset, s.focusNode, s.focusOffset)
    THEN [startContainer |-> s.anchorNode, startOffset |-> s.anchorOffset,
          endContainer |-> s.focusNode, endOffset |-> s.focusOffset]
    ELSE [startContainer |-> s.focusNode, startOffset |-> s.focusOffset,
          endContainer |-> s.anchorNode, endOffset |-> s.anchorOffset]

Collapsed(node, offset) ==
    [anchorNode |-> node, anchorOffset |-> offset, focusNode |-> node, focusOffset |-> offset]

RangeStartOffset(ed, r) == FlatOffset(ed, r.startContainer, r.startOffset)

RangeEndOffset(ed, r) == FlatOffset(ed, r.endContainer, r.endOffset)

\* beforeCursor(): the text from the editor's start to the range's start
BeforeCursor(ed, s) == SubSeq(TextContent(ed), 1, RangeStartOffset(ed, GetRange(ed, s)))

\* afterCursor(): the text from the range's end to the editor's end
AfterCursor(ed, s) ==
    SubSeq(TextContent(ed), RangeEndOffset(ed, GetRange(ed, s)) + 1, Len(TextContent(ed)))

\* What deleting the characters a+1..b of the content leaves of a text node
\* with value v that c characters precede.
CutNode(v, c, a, b) ==
    SubSeq(v, 1, IF a > c THEN Min(a - c, Len(v)) ELSE 0)
    \o SubSeq(v, IF b > c THEN Min(b - c, Len(v)) + 1 ELSE 1, Len(v))

CutNodes(ed, a, b) ==
    [el \in DOMAIN ed.nodes |->
        IF IsText(ed, el)
        THEN [ed.nodes[el] EXCEPT !.nodeValue =
                 CutNode(ed.nodes[el].nodeValue, FlatOffset(ed, el, 0), a, b)]
        ELSE ed.nodes[el]]

DeleteRangeIn(ed, r) ==
    [editor |-> [ed EXCEPT !.nodes =
                    CutNodes(ed, RangeStartOffset(ed, r), RangeEndOffset(ed, r))],
     sel    |-> Collapsed(r.startContainer, r.startOffset)]

\* Deleting the range's contents: the start node keeps what precedes the
\* range, the end node what follows it, the text nodes between are emptied;
\* the selection collapses at the range's start.
DeleteContents(ed, s) == DeleteRangeIn(ed, GetRange(ed, s))

\* the place in a text node at flat offset k, for a caret that an editing
\* command finds in an element: the first text node that reaches k
RECURSIVE TextPointAt(_, _, _, _)
TextPointAt(ed, order, i, k) ==
    IF i > Len(order) THEN Collapsed(0, 0)
    ELSE IF ~IsText(ed, order[i]) THEN TextPointAt(ed, order, i + 1, k)
    ELSE IF NodeLen(ed, order[i]) >= k THEN Collapsed(order[i], k)
    ELSE TextPointAt(ed, order, i + 1, k - NodeLen(ed, order[i]))

\* the caret of an editing command: s itself in a text node
TextCaret(ed, s) ==
    IF s.anchorNode # 0 /\ IsText(ed, s.anchorNode) THEN s
    ELSE TextPointAt(ed, VisitOrder(ed), 1, FlatOffset(ed, s.anchorNode, s.anchorOffset))

InsertInNode(ed, tgt, o, text) ==
    [editor |-> [ed EXCEPT !.nodes[tgt].nodeValue =
                    SubSeq(@, 1, o) \o text \o SubSeq(@, o + 1, Len(@))],
     sel    |-> Collapsed(tgt, o + Len(text))]

\* with no text node to take the text, one is made
InsertAt(ed, s, text, caret) ==
    IF caret.anchorNode # 0 THEN InsertInNode(ed, caret.anchorNode, caret.anchorOffset, text)
    ELSE IF text = <<>> THEN [editor |-> ed, sel |-> s]
    ELSE [editor |-> [firstChild |-> Len(ed.nodes) + 1,
                      nodes |-> Append(ed.nodes, TextNode(text, ed.firstChild))],
          sel    |-> Collapsed(Len(ed.nodes) + 1, Len(text))]

InsertCollapsed(d, text) == InsertAt(d.editor, d.sel, text, TextCaret(d.editor, d.sel))

\* execCommand("insertText", false, text) and execCommand("insertHTML",
\* false, text) for a text without markup: the selected text is replaced by
\* `text` and the caret is left right after it.
InsertText(ed, s, text) == InsertCollapsed(DeleteContents(ed, s), text)

\* Backspace with a collapsed caret: the character before it goes
RECURSIVE BackspaceAt(_, _, _, _, _)
BackspaceAt(ed, s, order, k, offset) ==
    IF k < 1 THEN [editor |-> ed, sel |-> s]
    ELSE IF offset > 0
    THEN [editor |-> [ed EXCEPT !.nodes[order[k]].nodeValue =
                         SubSeq(@, 1, offset - 1) \o SubSeq(@, offset + 1, Len(@))],
          sel    |-> Collapsed(order[k], offset - 1)]
    ELSE IF k = 1 THEN [editor |-> ed, sel |-> s]
    ELSE BackspaceAt(ed, s, order, k - 1,
                     IF IsText(ed, order[k - 1]) THEN NodeLen(ed, order[k - 1]) ELSE 0)

\* execCommand("delete"), and the Backspace key: the selected text goes, or,
\* when nothing is selected, the character before the caret
DeleteBackwardIn(ed, s, caret, order) ==
    IF s.anchorNode = s.focusNode /\ s.anchorOffset = s.focusOffset
    THEN BackspaceAt(ed, s, order, IndexIn(order, caret.anchorNode, 1), caret.anchorOffset)
    ELSE DeleteContents(ed, s)

(***************************************************************************)
(* findPadding(text): [padding, start of the line, end of the padding]     *)
(***************************************************************************)
RECURSIVE LineStart(_, _)
LineStart(text, i) ==
    \* while (i >= 0 && text[i] !== "\n") i--   (i is 0-based)
    IF i >= 0 /\ text[i + 1] # "\n" THEN LineStart(text, i - 1) ELSE i

IsPad(c) == c \in {" ", "\t"}

RECURSIVE PaddingEnd(_, _)
PaddingEnd(text, j) ==
    \* while (j < text.length && /[ \t]/.test(text[j])) j++
    IF j < Len(text) /\ IsPad(text[j + 1]) THEN PaddingEnd(text, j + 1) ELSE j

\* [text.substring(i, j) || "", i, j]
PaddingFrom(text, i, j) == [padding |-> SubSeq(text, i + 1, j), start |-> i, end |-> j]

FindPadding(text) ==
    PaddingFrom(text, LineStart(text, Len(text) - 1) + 1,
                PaddingEnd(text, LineStart(text, Len(text) - 1) + 1))

(***************************************************************************)
(* editor.innerHTML.  The serialization is a sequence of tokens: a tag, a  *)
(* character, or a character reference.  Reading it builds fresh nodes     *)
(* (adjacent characters join into one text node) and leaves the selection  *)
(* on the editor element.                                                  *)
(***************************************************************************)
EscapeChar(c) ==
    IF c = "&" THEN "&amp;" ELSE IF c = "<" THEN "&lt;" ELSE IF c = ">" THEN "&gt;" ELSE c

UnescapeToken(t) ==
    IF t = "&amp;" THEN "&" ELSE IF t = "&lt;" THEN "<" ELSE IF t = "&gt;" THEN ">" ELSE t

TagName(t) == IF t = "<span>" THEN "span" ELSE IF t = "<div>" THEN "div" ELSE "br"

RECURSIVE EscapeText(_, _)
EscapeText(text, i) ==
    IF i > Len(text) THEN <<>>
    ELSE <<EscapeChar(text[i])>> \o EscapeText(text, i + 1)

RECURSIVE SerializeList(_, _)
SerializeList(ed, el) ==
    IF el = 0 THEN <<>>
    ELSE (IF ed.nodes[el].nodeType = "text" THEN EscapeText(ed.nodes[el].nodeValue, 1)
          ELSE IF ed.nodes[el].nodeType = "br" THEN <<"<br>">>
          ELSE <<"<" \o ed.nodes[el].nodeType \o ">">>
               \o SerializeList(ed, ed.nodes[el].firstChild)
               \o <<"</" \o ed.nodes[el].nodeType \o ">">>)
         \o SerializeList(ed, ed.nodes[el].nextSibling)

\* the innerHTML getter
InnerHTML(ed) == SerializeList(ed, ed.firstChild)

\* Appends node n, with id `id`, after sibling `prev` or as the first child
\* of `parent`, the parser's current place.
ParseLinkAt(st, n, id, prev, parent) ==
    [st EXCEPT !.nodes = Append(IF prev # 0 THEN [st.nodes EXCEPT ![prev].nextSibling = id]
                                ELSE IF parent # 0
                                THEN [st.nodes EXCEPT ![parent].firstChild = id]
                                ELSE st.nodes, n),
               !.first = IF prev = 0 /\ parent = 0 THEN id ELSE st.first,
               !.last[Len(st.last)] = id]

ParseLink(st, n) ==
    ParseLinkAt(st, n, Len(st.nodes) + 1, st.last[Len(st.last)], st.open[Len(st.open)])

ParseOpen(st) ==
    [st EXCEPT !.open = Append(st.open, Len(st.nodes)), !.last = Append(st.last, 0)]

ParseClose(st) ==
    IF Len(st.open) > 1
    THEN [st EXCEPT !.open = SubSeq(st.open, 1, Len(st.open) - 1),
                    !.last = SubSeq(st.last, 1, Len(st.last) - 1)]
    ELSE st

ParseChar(st, c, prev) ==
    IF prev # 0 /\ st.nodes[prev].nodeType = "text"
    THEN [st EXCEPT !.nodes[prev].nodeValue = Append(@, c)]
    ELSE ParseLink(st, TextNode(<<c>>, 0))

ParseToken(st, t) ==
    IF t \in {"<span>", "<div>"} THEN ParseOpen(ParseLink(st, ElemNode(TagName(t), 0, 0)))
    ELSE IF t \in {"</span>", "</div>"} THEN ParseClose(st)
    ELSE IF t = "<br>" THEN ParseLink(st, ElemNode("br", 0, 0))
    ELSE ParseChar(st, UnescapeToken(t), st.last[Len(st.last)])

RECURSIVE ParseLoop(_, _, _)
ParseLoop(html, i, st) ==
    IF i > Len(html) THEN st ELSE ParseLoop(html, i + 1, ParseToken(st, html[i]))

ParsedTree(st) == [firstChild |-> st.first, nodes |-> st.nodes]

ParseHTML(html) ==
    ParsedTree(ParseLoop(html, 1, [nodes |-> <<>>, first |-> 0, open |-> <<0>>, last |-> <<0>>]))

\* the innerHTML setter
SetInnerHTML(html) == [editor |-> ParseHTML(html), sel |-> Collapsed(0, 0)]

(***************************************************************************)
(* The caller's highlighter.  Three stand-ins: one that leaves the markup  *)
(* alone, one that rewrites the content as plain text, and one that wraps  *)
(* every bracket character in a span.  None changes the text.              *)
(***************************************************************************)
Brackets == {"(", ")", "[", "]", "{", "}"}

RECURSIVE TokenMarkup(_, _)
TokenMarkup(text, i) ==
    IF i > Len(text) THEN <<>>
    ELSE (IF text[i] \in Brackets
          THEN <<"<span>", EscapeChar(text[i]), "</span>">>
          ELSE <<EscapeChar(text[i])>>)
         \o TokenMarkup(text, i + 1)

Highlight(h, ed, s) ==
    IF h = "none" THEN [editor |-> ed, sel |-> s]
    ELSE IF h = "plain" THEN SetInnerHTML(EscapeText(TextContent(ed), 1))
    ELSE SetInnerHTML(TokenMarkup(TextContent(ed), 1))

(***************************************************************************)
(* Keyboard events, and the editor as the handlers see it: a record m of   *)
(* the fields a handler reads or writes, with                              *)
(*   thrown    - an exception left the handler (the listener is aborted),  *)
(*   prevented - event.preventDefault() was called,                        *)
(*   stored    - recordHistory stored a record.                            *)
(***************************************************************************)
KeyEvent(key, shift, meta, ctrl, code) ==
    [key |-> key, shiftKey |-> shift, metaKey |-> meta, ctrlKey |-> ctrl, code |-> code]

PlainKey(key) == KeyEvent(key, FALSE, FALSE, FALSE, "Key")

UndoEvent == KeyEvent("z", FALSE, FALSE, TRUE, "KeyZ")

RedoEvent == KeyEvent("Z", TRUE, FALSE, TRUE, "KeyZ")

NoEvent == KeyEvent("", FALSE, FALSE, FALSE, "")

isCtrl(event) == event.metaKey \/ event.ctrlKey

isUndo(event) == isCtrl(event) /\ ~event.shiftKey /\ event.code = "KeyZ"

isRedo(event) == isCtrl(event) /\ event.shiftKey /\ event.code = "KeyZ"

\* String.prototype.startsWith
StartsWith(str, prefix) ==
    Len(str) >= Len(prefix) /\ SubSeq(str, 1, Len(prefix)) = prefix

shouldRecord(event) ==
    /\ ~isUndo(event)
    /\ ~isRedo(event)
    /\ event.key # "Meta"
    /\ event.key # "Control"
    /\ event.key # "Alt"
    /\ ~StartsWith(event.key, "Arrow")

Machine(ed, s, h, a, f, t, r) ==
    [editor |-> ed, sel |-> s, history |-> h, at |-> a, focus |-> f, tab |-> t,
     recording |-> r, thrown |-> FALSE, prevented |-> FALSE, stored |-> FALSE]

PreventDefault(m) == [m EXCEPT !.prevented = TRUE]

Restored(m, r) == [m EXCEPT !.sel = r.sel, !.thrown = ~r.ok]

\* this.restore(pos) inside a handler
DoRestore(m, pos) == Restored(m, Restore(m.editor, m.sel, pos))

Edited(m, r) == [m EXCEPT !.editor = r.editor, !.sel = r.sel]

\* document.execCommand("insertText" or "insertHTML", false, text)
DoInsert(m, text) == Edited(m, InsertText(m.editor, m.sel, text))

(***************************************************************************)
(* handleNewLine                                                           *)
(***************************************************************************)
EndsWithBrace(before) == Len(before) > 0 /\ before[Len(before)] = "{"

\* lines 230-234: the text Enter inserts
NewLineText(tabText, before, after, padding) ==
    <<"\n">> \o padding
    \o (IF EndsWithBrace(before) THEN tabText ELSE <<>>)
    \o (IF Len(after) = 0 THEN <<"\n">> ELSE <<>>)

\* lines 236-240: a closing brace right after the cursor gets a line of its own
CloseBraceLine(m, after, padding) ==
    IF Len(after) > 0 /\ after[1] = "}"
    THEN DoRestore(DoInsert(m, <<"\n">> \o padding), Save(m.editor, m.sel))
    ELSE m

NewLineWith(m, before, after, padding) ==
    CloseBraceLine(DoInsert(m, NewLineText(m.tab, before, after, padding)), after, padding)

NewLineAt(m, before, after) == NewLineWith(m, before, after, FindPadding(before).padding)

HandleNewLine(m, event) ==
    IF m.thrown \/ event.key # "Enter" THEN m
    ELSE NewLineAt(PreventDefault(m), BeforeCursor(m.editor, m.sel),
                   AfterCursor(m.editor, m.sel))

(***************************************************************************)
(* handleSelfClosingCharacters                                             *)
(***************************************************************************)
OpenChars == "([{'\""

CloseChars == ")]}'\""

\* str occurs in `str0` at the 0-based index i
OccursAt(str0, str, i) == SubSeq(str0, i + 1, i + Len(str)) = str

\* String.prototype.includes: a substring test
Includes(str0, str) == \E i \in 0..(Len(str0) - Len(str)) : OccursAt(str0, str, i)

\* String.prototype.indexOf, for a string that occurs
IndexOf(str0, str) ==
    CHOOSE i \in 0..(Len(str0) - Len(str)) :
        /\ OccursAt(str0, str, i)
        /\ \A j \in 0..(i - 1) : ~OccursAt(str0, str, j)

\* event.key + close[open.indexOf(event.key)], character by character
PairText(key) ==
    [i \in 1..Len(key) |-> SubSeq(key, i, i)]
    \o <<SubSeq(CloseChars, IndexOf(OpenChars, key) + 1, IndexOf(OpenChars, key) + 1)>>

\* pos.start = ++pos.end
MovedPos(pos) == Position(pos.end + 1, pos.end + 1, pos.direction)

SelfClosingAt(m, event, codeAfter, pos) ==
    IF /\ Includes(CloseChars, event.key)
       /\ (IF codeAfter = <<>> THEN "" ELSE codeAfter[1]) = event.key
    THEN DoRestore(PreventDefault(m), MovedPos(pos))
    ELSE IF Includes(OpenChars, event.key)
    THEN DoRestore(DoInsert(PreventDefault(m), PairText(event.key)), MovedPos(pos))
    ELSE m

HandleSelfClosingCharacters(m, event) ==
    IF m.thrown THEN m
    ELSE SelfClosingAt(m, event, AfterCursor(m.editor, m.sel), Save(m.editor, m.sel))

(***************************************************************************)
(* handleTabCharacters                                                     *)
(***************************************************************************)
\* line 273
DeleteSelected(m) ==
    IF m.thrown THEN m
    ELSE Edited(m, DeleteBackwardIn(m.editor, m.sel, TextCaret(m.editor, m.sel),
                                    VisitOrder(m.editor)))

RestoreShifted(m, pos, len) ==
    IF m.thrown THEN m
    ELSE DoRestore(m, Position(pos.start - len, pos.end - len, pos.direction))

\* lines 272-276
UnindentBy(m, start, pos, len) ==
    RestoreShifted(DeleteSelected(DoRestore(m, Position(start, start + len, NoDirection))),
                   pos, len)

Unindent(m, fp) ==
    IF Len(fp.padding) > 0
    THEN UnindentBy(m, fp.start, Save(m.editor, m.sel), Min(Len(m.tab), Len(fp.padding)))
    ELSE m

HandleTabCharacters(m, event) ==
    IF m.thrown \/ event.key # "Tab" THEN m
    ELSE IF event.shiftKey
    THEN Unindent(PreventDefault(m), FindPadding(BeforeCursor(m.editor, m.sel)))
    ELSE DoInsert(PreventDefault(m), m.tab)

(***************************************************************************)
(* handleJumpToBeginningOfLine                                             *)
(***************************************************************************)
\* before.endsWith(padding)
EndsWith(text, suffix) ==
    /\ Len(suffix) <= Len(text)
    /\ SubSeq(text, Len(text) - Len(suffix) + 1, Len(text)) = suffix

JumpTo(m, event, before, fp, pos) ==
    IF EndsWith(before, fp.padding)
    THEN IF event.shiftKey
         THEN DoRestore(m, Position(fp.start, pos.end, NoDirection))
         ELSE DoRestore(m, Position(fp.start, fp.start, NoDirection))
    ELSE IF event.shiftKey
         THEN DoRestore(m, Position(fp.end, pos.end, NoDirection))
         ELSE DoRestore(m, Position(fp.end, fp.end, NoDirection))

JumpAt(m, event, before, pos) == JumpTo(m, event, before, FindPadding(before), pos)

HandleJumpToBeginningOfLine(m, event) ==
    IF m.thrown \/ ~(event.key = "ArrowLeft" /\ event.metaKey) THEN m
    ELSE JumpAt(PreventDefault(m), event, BeforeCursor(m.editor, m.sel),
                Save(m.editor, m.sel))

(***************************************************************************)
(* The history: a JS array indexed from 0.  Reading outside it, or reading *)
(* an index never written, gives undefined (Hole).                         *)
(***************************************************************************)
Hole == [html |-> <<"undefined">>, pos |-> Position(0, 0, NoDirection)]

HistoryRecord(html, pos) == [html |-> html, pos |-> pos]

\* this.history[i]
HistoryGet(h, i) == IF 0 <= i /\ i < Len(h) THEN h[i + 1] ELSE Hole

\* this.history[i] = rec, for i >= 0
HistorySet(h, i, rec) ==
    IF i < Len(h) THEN [h EXCEPT ![i + 1] = rec]
    ELSE h \o [k \in 1..(i - Len(h)) |-> Hole] \o <<rec>>

\* lines 347-351: the cap
CapHistory(m) ==
    IF m.at > maxHistory
    THEN [m EXCEPT !.at = maxHistory, !.history = Tail(m.history)]
    ELSE m

\* line 345 left out: the entries after `at` stay
SpliceNothing(h, n) == h

\* this.history.splice(n)
Splice(h, n) == SubSeq(h, 1, Min(n, Len(h)))

\* lines 343-345
StoreRecord(m, at1, h1) ==
    CapHistory([m EXCEPT !.at = at1, !.history = Splice(h1, at1 + 1), !.stored = TRUE])

\* lines 336-341: a record equal to the one at `at` is not stored again
SameAsLast(lastRecord, html, pos) ==
    /\ lastRecord # Hole
    /\ lastRecord.html = html
    /\ lastRecord.pos.start = pos.start
    /\ lastRecord.pos.end = pos.end

RecordIfNew(m, html, pos, lastRecord) ==
    IF SameAsLast(lastRecord, html, pos) THEN m
    ELSE StoreRecord(m, m.at + 1, HistorySet(m.history, m.at + 1, HistoryRecord(html, pos)))

\* line 331 left out: a record is taken whether or not the editor has focus
RecordHistoryUnfocused(m) ==
    RecordIfNew(m, InnerHTML(m.editor), Save(m.editor, m.sel),
                HistoryGet(m.history, m.at))

\* recordHistory()
RecordHistory(m) ==
    IF ~m.focus THEN m
    ELSE RecordIfNew(m, InnerHTML(m.editor), Save(m.editor, m.sel),
                     HistoryGet(m.history, m.at))

(***************************************************************************)
(* handleUndoRedo                                                          *)
(***************************************************************************)
StepAt(m, d) == [m EXCEPT !.at = m.at + d]

\* restore writes to record.pos, the object stored in the history
Replayed(m, set, r) ==
    [m EXCEPT !.editor = set.editor, !.sel = r.sel,
              !.history[m.at + 1].pos = r.pos, !.thrown = ~r.ok]

ReplayInto(m, record, set) == Replayed(m, set, Restore(set.editor, set.sel, record.pos))

ReplayRecord(m, record) ==
    IF record = Hole THEN m ELSE ReplayInto(m, record, SetInnerHTML(record.html))

\* lines 311-315 and 321-325: replay the record at `at`, if there is one
Replay(m) == ReplayRecord(m, HistoryGet(m.history, m.at))

\* line 316
ClampLow(m) == IF ~m.thrown /\ m.at < 0 THEN [m EXCEPT !.at = 0] ELSE m

\* line 326
ClampHigh(m) ==
    IF ~m.thrown /\ m.at >= Len(m.history) THEN [m EXCEPT !.at = m.at - 1] ELSE m

Undo(m, event) ==
    IF ~isUndo(event) THEN m ELSE ClampLow(Replay(StepAt(PreventDefault(m), -1)))

Redo(m, event) ==
    IF m.thrown \/ ~isRedo(event) THEN m
    ELSE ClampHigh(Replay(StepAt(PreventDefault(m), 1)))

HandleUndoRedo(m, event) == IF m.thrown THEN m ELSE Redo(Undo(m, event), event)

(***************************************************************************)
(* handlePaste, and the paste listener around it                           *)
(***************************************************************************)
RECURSIVE StripPasteMarkup(_, _)
StripPasteMarkup(html, i) ==
    \* .replace(/<div>/g, "\n").replace(/<br>/g, "").replace(/<\/div>/g, "")
    IF i > Len(html) THEN <<>>
    ELSE (IF html[i] = "<div>" THEN <<"\n">>
          ELSE IF html[i] \in {"<br>", "</div>"} THEN <<>>
          ELSE <<html[i]>>)
         \o StripPasteMarkup(html, i + 1)

\* lines 359-364
Sanitized(m) == Edited(m, SetInnerHTML(StripPasteMarkup(InnerHTML(m.editor), 1)))

\* this.highlight(this.editor)
Relit(m, h) == Edited(m, Highlight(h, m.editor, m.sel))

\* line 366
PasteAt(m, h, text, pos) ==
    DoRestore(Relit(Sanitized(DoInsert(m, text)), h),
              Position(pos.end + Len(text), pos.end + Len(text), NoDirection))

HandlePaste(m, h, text) == PasteAt(PreventDefault(m), h, text, Save(m.editor, m.sel))

RecordUnlessThrown(m) == IF m.thrown THEN m ELSE RecordHistory(m)

PasteListener(m, h, text) == RecordUnlessThrown(HandlePaste(RecordHistory(m), h, text))

(***************************************************************************)
(* The keydown listener: the five handlers in order (an exception leaves   *)
(* the listener at once), then the record of lines 64-67.  The platform's  *)
(* default action (typing or deleting a character) follows unless          *)
(* prevented.                                                              *)
(***************************************************************************)
KeydownHandlers(m, event) ==
    HandleUndoRedo(
        HandleSelfClosingCharacters(
            HandleJumpToBeginningOfLine(
                HandleTabCharacters(HandleNewLine(m, event), event), event), event), event)

\* lines 64-67
KeydownRecord(m, event) ==
    IF ~m.thrown /\ shouldRecord(event) /\ ~m.recording
    THEN [RecordHistory(m) EXCEPT !.recording = TRUE]
    ELSE m

\* a key that types: its value is the one character it produces
Printable(event) == Len(event.key) = 1 /\ ~isCtrl(event)

DefaultAction(m, event) ==
    IF m.prevented THEN m
    ELSE IF event.key = "Backspace"
    THEN Edited(m, DeleteBackwardIn(m.editor, m.sel, TextCaret(m.editor, m.sel),
                                    VisitOrder(m.editor)))
    ELSE IF Printable(event) THEN DoInsert(m, <<event.key>>)
    ELSE m

KeydownListener(m, event) ==
    DefaultAction(KeydownRecord(KeydownHandlers(m, event), event), event)

\* debounceHighlight's callback, lines 32-36
HighlightCallback(m, h) == DoRestore(Relit(m, h), Save(m.editor, m.sel))

\* debounceRecordHistory's callback, lines 46-51
RecordCallback(m, event) ==
    IF shouldRecord(event) THEN [RecordHistory(m) EXCEPT !.recording = FALSE] ELSE m

(***************************************************************************)
(* The state machine.  obs records the last handler observed: what ran,    *)
(* with which input, on which content, selection and history position,     *)
(* how it ended (an exception, a record stored), and whether the handler   *)
(* observed before it stored a record and how many undone entries the      *)
(* history held then.  The content and the selection the handler started   *)
(* from are kept only under watch.                                         *)
(***************************************************************************)
\* A debouncer (lines 410-416) is the sequence of its timeouts still pending,
\* oldest first.  `latest` marks the one whose id the closure's `timeout`
\* holds; `replaced` tells that setting it cleared a pending one.
ClearTimeout(pending) == SelectSeq(pending, LAMBDA t : ~t.latest)

\* a call that sets a timeout and clears none
DebounceKeepAll(pending, event) ==
    [i \in 1..Len(pending) |-> [pending[i] EXCEPT !.latest = FALSE]]
    \o <<[event |-> event, latest |-> TRUE, replaced |-> FALSE]>>

\* clearTimeout(timeout); timeout = window.setTimeout(() => cb(...args), wait)
Debounce(pending, event) ==
    Append(ClearTimeout(pending),
           [event |-> event, latest |-> TRUE,
            replaced |-> Len(ClearTimeout(pending)) < Len(pending)])

Current == Machine(editor, sel, history, at, focus, tab, recording)

Observe(op, event, text, m) ==
    [op      |-> op,
     event   |-> event,
     arg     |-> text,
     watch   |-> obs.watch,
     text    |-> IF obs.watch THEN TextContent(editor) ELSE <<>>,
     html    |-> IF obs.watch THEN InnerHTML(editor) ELSE <<>>,
     pos     |-> IF obs.watch THEN Save(editor, sel) ELSE Position(0, 0, NoDirection),
     at      |-> at,
     len     |-> Len(history),
     before  |-> [stored |-> obs.stored, undone |-> obs.len - 1 - obs.at],
     thrown  |-> m.thrown,
     stored  |-> m.stored]

StartObs(watch) ==
    [op |-> "init", event |-> NoEvent, arg |-> <<>>, watch |-> watch, text |-> <<>>,
     html |-> <<>>,
     pos |-> Position(0, 0, NoDirection), at |-> -1, len |-> 0,
     before |-> [stored |-> FALSE, undone |-> 0], thrown |-> FALSE, stored |-> FALSE]

Commit(m) ==
    /\ editor' = m.editor
    /\ sel' = m.sel
    /\ history' = m.history
    /\ at' = m.at
    /\ recording' = m.recording

\* a handler ran to its end (or to its exception): m is what it left behind
Step(op, event, text, m, maxText, maxRecords) ==
    /\ Len(TextContent(m.editor)) <= maxText
    /\ Len(m.history) <= maxRecords
    /\ Commit(m)
    /\ obs' = Observe(op, event, text, m)

Keydown(event, maxText, maxRecords) ==
    /\ attached
    /\ Step("keydown", event, <<>>, KeydownListener(Current, event), maxText, maxRecords)
    /\ UNCHANGED <<tab, hl, focus, hlTimer, recTimer, attached>>

\* lines 70-74: both debounced callbacks are (re)armed
Keyup(event) ==
    /\ attached
    /\ hlTimer' = Debounce(hlTimer, NoEvent)
    /\ recTimer' = Debounce(recTimer, event)
    /\ UNCHANGED <<editor, sel, tab, hl, history, at, focus, recording, attached, obs>>

\* a 30 ms timeout expires
FireHighlight ==
    /\ hlTimer # <<>>
    /\ hlTimer' = Tail(hlTimer)
    /\ Step("highlight", NoEvent, <<>>, HighlightCallback(Current, hl),
            Len(TextContent(editor)), Len(history))
    /\ UNCHANGED <<tab, hl, focus, recTimer, attached>>

\* a 300 ms timeout expires; it was set together with a 30 ms one, which
\* has expired before it
FireRecord(maxRecords) ==
    /\ recTimer # <<>>
    /\ hlTimer = <<>>
    /\ recTimer' = Tail(recTimer)
    /\ Step("record", Head(recTimer).event, <<>>,
            RecordCallback(Current, Head(recTimer).event),
            Len(TextContent(editor)), maxRecords)
    /\ UNCHANGED <<tab, hl, focus, hlTimer, attached>>

Focus ==
    /\ attached
    /\ ~focus
    /\ focus' = TRUE
    /\ UNCHANGED <<editor, sel, tab, hl, history, at, recording, hlTimer, recTimer, attached, obs>>

Blur ==
    /\ attached
    /\ focus
    /\ focus' = FALSE
    /\ UNCHANGED <<editor, sel, tab, hl, history, at, recording, hlTimer, recTimer, attached, obs>>

Paste(text, maxText, maxRecords) ==
    /\ attached
    /\ Step("paste", NoEvent, text, PasteListener(Current, hl, text), maxText, maxRecords)
    /\ UNCHANGED <<tab, hl, focus, hlTimer, recTimer, attached>>

\* updateOptions(options), with options that name a tab
UpdateOptions(t) ==
    /\ tab' = t
    /\ UNCHANGED <<editor, sel, hl, history, at, focus, recording, hlTimer, recTimer, attached, obs>>

\* updateCode(code): the text replaces the children of the editor, which
\* takes the selection to the editor element, and highlight runs
UpdateCode(code) ==
    /\ editor' = Highlight(hl, IF code = <<>> THEN EmptyEditor
                               ELSE [firstChild |-> 1, nodes |-> <<TextNode(code, 0)>>],
                           Collapsed(0, 0)).editor
    /\ sel' = Highlight(hl, IF code = <<>> THEN EmptyEditor
                            ELSE [firstChild |-> 1, nodes |-> <<TextNode(code, 0)>>],
                        Collapsed(0, 0)).sel
    /\ UNCHANGED <<tab, hl, history, at, focus, recording, hlTimer, recTimer, attached, obs>>

\* the user moves the selection (no listener of the editor runs)
Select(s) ==
    /\ sel' = s
    /\ UNCHANGED <<editor, tab, hl, history, at, focus, recording, hlTimer, recTimer, attached, obs>>

\* destroy(): the listeners go, pending timers stay
Destroy ==
    /\ attached
    /\ attached' = FALSE
    /\ UNCHANGED <<editor, sel, tab, hl, history, at, focus, recording, hlTimer, recTimer, obs>>

TextNodes(ed) == {n \in 1..Len(ed.nodes) : IsText(ed, n)}

TextBoundaries(ed) == UNION {{<<n, o>> : o \in 0..NodeLen(ed, n)} : n \in TextNodes(ed)}

\* the selections a user can make: any two boundaries in text, or, with no
\* text node at all, the caret in the editor element
Selections(ed) ==
    IF TextNodes(ed) = {} THEN {Collapsed(0, 0)}
    ELSE {[anchorNode |-> a[1], anchorOffset |-> a[2], focusNode |-> f[1], focusOffset |-> f[2]] :
             a \in TextBoundaries(ed), f \in TextBoundaries(ed)}

\* the selections a browser leaves on the editor element: the caret before,
\* between or after its children, and runs of whole children (all of the
\* content among them) selected in either direction
ElementSelections(ed) ==
    {[anchorNode |-> 0, anchorOffset |-> a, focusNode |-> 0, focusOffset |-> f] :
        a, f \in {j \in 0..Len(ed.nodes) : j = 0 \/ ChildAt(ed, ed.firstChild, j - 1) # 0}}

\* the state the constructor leaves: highlight has run once (line 31), the
\* history is empty, nothing is pending
Constructed(trees, tabs, hls, focused) ==
    /\ tab \in tabs
    /\ hl \in hls
    /\ editor \in {Highlight(h, t, Collapsed(0, 0)).editor : h \in {hl}, t \in trees}
    /\ history = <<>>
    /\ at = -1
    /\ focus \in focused
    /\ recording = FALSE
    /\ hlTimer = <<>>
    /\ recTimer = <<>>
    /\ attached = TRUE

(***************************************************************************)
(* SpecPos: save and restore over highlighted markup.  The editor holds    *)
(* one of a few node trees, the user has made any selection in its text,   *)
(* and a key release lets the debounced highlight save and restore it.     *)
(***************************************************************************)
NodeTexts == SeqsUpTo({"a"}, MaxNodeLen)

PosTrees ==
    {[firstChild |-> 1, nodes |-> <<TextNode(t, 0)>>] : t \in NodeTexts}
    \cup {[firstChild |-> 1, nodes |-> <<TextNode(t, 2), TextNode(u, 0)>>] :
             t \in NodeTexts, u \in NodeTexts}
    \cup {[firstChild |-> 1,
           nodes |-> <<ElemNode("span", 2, 3), TextNode(t, 0), TextNode(u, 0)>>] :
             t \in NodeTexts, u \in NodeTexts}
    \cup {[firstChild |-> 1,
           nodes |-> <<TextNode(t, 2), ElemNode("span", 3, 5), TextNode(u, 4),
                       ElemNode("br", 0, 0), TextNode(<<"a">>, 0)>>] :
             t \in NodeTexts, u \in NodeTexts}

PosInit ==
    /\ Constructed(PosTrees, {<<"\t">>}, {"none"}, {FALSE})
    /\ sel \in Selections(editor)
    /\ obs = StartObs(TRUE)

PosNext ==
    \/ Keyup(PlainKey("a"))
    \/ FireHighlight

SpecPos == PosInit /\ [][PosNext]_vars

\* C1: a position obtained from save and put back with restore is read back
\* by save exactly as it was: the same start, end and direction.
C1_RoundTripExact ==
    obs.op = "highlight" => (~obs.thrown /\ Save(editor, sel) = obs.pos)

SavedAgain(q) ==
    /\ ~obs.thrown
    /\ q.start = obs.pos.start
    /\ q.end = obs.pos.end
    /\ q.direction = IF obs.pos.start = obs.pos.end THEN "<-" ELSE obs.pos.direction

\* C1 (as the code has it): after save and restore, save reads back the same
\* start and end; the direction is the same when start and end differ, and is
\* '<-' when they are equal.
C1_RoundTripOffsets == obs.op = "highlight" => SavedAgain(Save(editor, sel))

\* a backward selection across two nodes made the round trip
C1_Witness ==
    /\ obs.op = "highlight"
    /\ obs.pos.direction = "<-"
    /\ obs.pos.start > obs.pos.end
    /\ sel.anchorNode # sel.focusNode
    /\ Save(editor, sel) = obs.pos

(***************************************************************************)
(* The key specifications: the editor holds a short text in one or two     *)
(* text nodes (or in the highlighter's markup), the user has selected      *)
(* anything in it, or the browser has left the selection on the editor     *)
(* element, and one key goes down.                                         *)
(***************************************************************************)
OneNode(text) == [firstChild |-> 1, nodes |-> <<TextNode(text, 0)>>]

TwoNodes(text, k) ==
    [firstChild |-> 1,
     nodes |-> <<TextNode(SubSeq(text, 1, k), 2), TextNode(SubSeq(text, k + 1, Len(text)), 0)>>]

TreesOf(text) == {OneNode(text)} \cup {TwoNodes(text, k) : k \in 1..(Len(text) - 1)}

TreesOver(chars, n) == UNION {TreesOf(text) : text \in SeqsUpTo(chars, n)}

Spaces(n) == [i \in 1..n |-> " "]

TabStrings == {<<"\t">>} \cup {Spaces(n) : n \in 0..MaxTabLen}

\* room for what one key can add: a line break, the padding, a tab, a line break
GrownLen == 2 * MaxTextLen + MaxTabLen + 2

KeyInit(chars, tabs, hls) ==
    /\ Constructed(TreesOver(chars, MaxTextLen), tabs, hls, {TRUE})
    /\ sel \in Selections(editor) \cup ElementSelections(editor)
    /\ obs = StartObs(TRUE)

OneKey(event) == obs.op = "init" /\ Keydown(event, GrownLen, MaxRecords)

TabKey == PlainKey("Tab")

ShiftTabKey == KeyEvent("Tab", TRUE, FALSE, FALSE, "Tab")

IndentInit == KeyInit({" ", "a", "\n"}, TabStrings, {"none"})

IndentNext ==
    \/ OneKey(TabKey)
    \/ OneKey(ShiftTabKey)

SpecIndent == IndentInit /\ [][IndentNext]_vars

\* the offset at which the line holding offset k starts
LineStartOf(text, k) ==
    CHOOSE i \in 0..k : /\ i = 0 \/ text[i] = "\n"
                        /\ \A j \in (i + 1)..k : text[j] # "\n"

\* how many of the characters text[ls+1..hi] are leading spaces or tabs of the
\* line that starts at offset ls
LeadingPad(text, ls, hi) ==
    Cardinality({j \in (ls + 1)..hi : \A i \in (ls + 1)..j : text[i] \in {" ", "\t"}})

\* where the selection starts in the flat text
SelectionStart(pos) == Min(pos.start, pos.end)

\* Shift+Tab took Min(n, Len(tab)) characters off the front of the line at ls
\* and moved the selection back by as many
Outdented(ls, n) ==
    /\ ~obs.thrown
    /\ TextContent(editor) = SubSeq(obs.text, 1, ls)
                             \o SubSeq(obs.text, ls + Min(n, Len(tab)) + 1, Len(obs.text))
    /\ Save(editor, sel).start = obs.pos.start - Min(n, Len(tab))
    /\ Save(editor, sel).end = obs.pos.end - Min(n, Len(tab))

OutdentLaw(ls, n) == n >= 1 => Outdented(ls, n)

ShiftTabPressed == obs.op = "keydown" /\ obs.event = ShiftTabKey

\* C5: Shift+Tab with the cursor anywhere on a line with N >= 1 leading
\* spaces or tabs removes Min(N, Len(options.tab)) of them and decreases the
\* cursor's start and end by that amount.
C5_IndentLawWholeLine ==
    ShiftTabPressed =>
        OutdentLaw(LineStartOf(obs.text, SelectionStart(obs.pos)),
                   LeadingPad(obs.text, LineStartOf(obs.text, SelectionStart(obs.pos)),
                              Len(obs.text)))

(***************************************************************************)
(* SpecKeys: Enter, a bracket, a letter, the jump to the start of the      *)
(* line, or a paste, on a text of spaces, letters and braces.              *)
(***************************************************************************)
EnterKey == PlainKey("Enter")

JumpKey(shift) == KeyEvent("ArrowLeft", shift, TRUE, FALSE, "ArrowLeft")

OnePaste(text) == obs.op = "init" /\ Paste(text, GrownLen, MaxRecords)

KeysInit == KeyInit({" ", "a", "{", "}"}, {<<"\t">>}, {"none", "tokens"})

KeysNext ==
    \/ OneKey(EnterKey)
    \/ \E key \in {"{", "}", "a"} : OneKey(PlainKey(key))
    \/ \E shift \in BOOLEAN : OneKey(JumpKey(shift))
    \/ \E text \in SeqsUpTo({"a"}, MaxPasteLen) \ {<<>>} : OnePaste(text)

SpecKeys == KeysInit /\ [][KeysNext]_vars

\* where the selection ends in the flat text
SelectionEnd(pos) == Max(pos.start, pos.end)

\* the selection is now a caret at flat offset k
CaretAt(k) == Save(editor, sel).start = k /\ Save(editor, sel).end = k

KeyPressed(event) == obs.op = "keydown" /\ obs.event = event

\* the text before the selection, `inserted`, and the text after the selection
Replaced(inserted) ==
    SubSeq(obs.text, 1, SelectionStart(obs.pos)) \o inserted
    \o SubSeq(obs.text, SelectionEnd(obs.pos) + 1, Len(obs.text))

\* C6: typing a closing character when that character is right after the
\* cursor inserts nothing, leaves the text as it was and leaves the cursor
\* collapsed one offset further, right past that closer.
C6_TypeThrough ==
    (/\ KeyPressed(PlainKey("}"))
     /\ SelectionEnd(obs.pos) < Len(obs.text)
     /\ obs.text[SelectionEnd(obs.pos) + 1] = "}")
    => (/\ ~obs.thrown
        /\ TextContent(editor) = obs.text
        /\ CaretAt(SelectionEnd(obs.pos) + 1))

\* the new line holds `indent` and the cursor is at its end
AutoIndented(before, indent) ==
    /\ ~obs.thrown
    /\ Len(TextContent(editor)) >= Len(before) + 1 + Len(indent)
    /\ SubSeq(TextContent(editor), 1, Len(before) + 1 + Len(indent))
           = before \o <<"\n">> \o indent
    /\ CaretAt(Len(before) + 1 + Len(indent))

PaddingOfCursorLine(ls) ==
    SubSeq(obs.text, ls + 1, ls + LeadingPad(obs.text, ls, SelectionStart(obs.pos)))

\* C7: with '{' right before the cursor and nothing after it, Enter makes a
\* new line indented by the line's padding plus one options.tab and leaves the
\* cursor at the end of that line.
C7_BraceAutoIndent ==
    (/\ KeyPressed(EnterKey)
     /\ SelectionEnd(obs.pos) = Len(obs.text)
     /\ SelectionStart(obs.pos) > 0
     /\ obs.text[SelectionStart(obs.pos)] = "{")
    => AutoIndented(SubSeq(obs.text, 1, SelectionStart(obs.pos)),
                    PaddingOfCursorLine(LineStartOf(obs.text, SelectionStart(obs.pos)))
                    \o tab)

\* C8: after a paste of T over any saved position P the selection is collapsed
\* at P.end + Len(T), and that offset is right after the inserted text.
C8_PasteCursor ==
    obs.op = "paste" =>
        /\ ~obs.thrown
        /\ TextContent(editor) = Replaced(obs.arg)
        /\ CaretAt(obs.pos.end + Len(obs.arg))
        /\ CaretAt(SelectionStart(obs.pos) + Len(obs.arg))

\* C9: typing an opening character over any selection inserts it and its
\* closer and leaves the cursor collapsed between the two.
C9_SelfClosingPair ==
    KeyPressed(PlainKey("{")) =>
        /\ ~obs.thrown
        /\ TextContent(editor) = Replaced(<<"{", "}">>)
        /\ CaretAt(SelectionStart(obs.pos) + 1)

\* the caret went to the start ls of the line if it was within or at the end
\* of the line's n leading spaces and tabs, and else to the end of those
JumpedFrom(c, ls, n) ==
    /\ ~obs.thrown
    /\ TextContent(editor) = obs.text
    /\ CaretAt(IF c <= ls + n THEN ls ELSE ls + n)

\* C10: the jump key without shift moves the cursor to the start of the line
\* if and only if the cursor was within or at the end of the line's leading
\* padding, and to the first character after the padding in every other case.
C10_LineStartJump ==
    (KeyPressed(JumpKey(FALSE)) /\ obs.pos.start = obs.pos.end) =>
        JumpedFrom(obs.pos.start,
                   LineStartOf(obs.text, obs.pos.start),
                   LeadingPad(obs.text, LineStartOf(obs.text, obs.pos.start), Len(obs.text)))

(***************************************************************************)
(* Spec: the editor from its construction on an empty element.  The user   *)
(* focuses it, types a letter, pastes one, undoes and redoes, leaves it    *)
(* and tears it down; the program sets options and content; the debounced  *)
(* callbacks fire in between.                                              *)
(***************************************************************************)
Init ==
    /\ Constructed({EmptyEditor}, {<<"\t">>}, {"none"}, {FALSE})
    /\ sel = Collapsed(0, 0)
    /\ obs = StartObs(FALSE)

Next ==
    \/ Focus
    \/ Blur
    \/ Keydown(PlainKey("a"), MaxCycle, MaxReplayed)
    \/ Keydown(UndoEvent, MaxCycle, MaxReplayed)
    \/ Keydown(RedoEvent, MaxCycle, MaxReplayed)
    \/ \E event \in {PlainKey("a"), UndoEvent} : Keyup(event)
    \/ FireHighlight
    \/ FireRecord(MaxReplayed)
    \/ Paste(<<"a">>, MaxCycle, MaxReplayed)
    \/ \E t \in {<<"\t">>, Spaces(1)} : UpdateOptions(t)
    \/ \E code \in SeqsUpTo({"a"}, MaxCycle) : UpdateCode(code)
    \/ Destroy

Spec == Init /\ [][Next]_vars

UndoPressed == obs.op = "keydown" /\ obs.event = UndoEvent

RedoPressed == obs.op = "keydown" /\ obs.event = RedoEvent

(***************************************************************************)
(* SpecHistory: the focused editor, empty at first.  The user types and    *)
(* pastes a letter, undoes and redoes, and the program replaces the        *)
(* content.                                                                *)
(***************************************************************************)
HistoryInit ==
    /\ Constructed({EmptyEditor}, {<<"\t">>}, {"none"}, {TRUE})
    /\ sel = Collapsed(0, 0)
    /\ obs = StartObs(FALSE)

SpecHistory ==
    /\ HistoryInit
    /\ [][\/ Keydown(PlainKey("a"), MaxTyped, MaxRecords)
          \/ Keydown(UndoEvent, MaxTyped, MaxRecords)
          \/ Keydown(RedoEvent, MaxTyped, MaxRecords)
          \/ Paste(<<"a">>, MaxTyped, MaxRecords)
          \/ \E code \in SeqsUpTo({"a"}, MaxCycle) : UpdateCode(code)]_vars

\* C3: every recordHistory call that stores a record leaves the history with
\* at + 1 entries, and a redo pressed after such a call replaces no content
\* and leaves `at` and the history as they are.
C3_BranchTruncation ==
    /\ [](obs.stored => Len(history) = at + 1)
    /\ [][(obs.stored /\ RedoPressed') =>
              (editor' = editor /\ at' = at /\ history' = history)]_vars

\* a redo pressed right after a record was stored over two undone entries
C3_Witness ==
    /\ RedoPressed
    /\ obs.before.stored
    /\ obs.before.undone = 2
    /\ Len(history) = at + 1

\* C4: with a history that is not empty, an undo that follows as many undos
\* as `at` counted ends with at = 0 and the content equal to the snapshot at
\* index 0, and no undo fails.
C4_UndoReachesOldest ==
    (UndoPressed /\ obs.len > 0) =>
        /\ ~obs.thrown
        /\ obs.at <= 1 => (at = 0 /\ InnerHTML(editor) = HistoryGet(history, 0).html)

(***************************************************************************)
(* SpecCap: a focused editor in which the user pastes a letter and deletes *)
(* it again, over and over; every round stores two records.                *)
(***************************************************************************)
CapInit ==
    /\ Constructed({EmptyEditor}, {<<"\t">>}, {"none"}, {TRUE})
    /\ sel = Collapsed(0, 0)
    /\ obs = StartObs(FALSE)

CapNext ==
    \/ Paste(<<"a">>, MaxCycle, maxHistory + 1)
    \/ Keydown(PlainKey("Backspace"), MaxCycle, maxHistory + 1)

SpecCap == CapInit /\ [][CapNext]_vars

\* C2: the history never holds more than 300 entries.
C2_HistoryBound == Len(history) <= maxHistory

\* C11: once destroy() has run no debounce timeout is pending, and no
\* listener or debounced callback runs any more: none is observed, and the
\* history, `at` and the recording flag stay as they are.
C11_Teardown ==
    /\ [](~attached => (hlTimer = <<>> /\ recTimer = <<>>))
    /\ [][~attached => UNCHANGED <<history, at, recording, obs>>]_vars

(***************************************************************************)
(* SpecTimers: the editor from its construction on an empty element.  The  *)
(* user focuses and leaves it, types and pastes a letter and releases      *)
(* keys, the program clears the content and tears the editor down; the     *)
(* debounced callbacks fire in between.                                    *)
(***************************************************************************)
SpecTimers ==
    /\ Init
    /\ [][\/ Focus
          \/ Blur
          \/ Keydown(PlainKey("a"), MaxCycle, MaxReplayed)
          \/ \E event \in {PlainKey("a"), UndoEvent} : Keyup(event)
          \/ FireHighlight
          \/ FireRecord(MaxReplayed)
          \/ Paste(<<"a">>, MaxCycle, MaxReplayed)
          \/ UpdateCode(<<>>)
          \/ Destroy]_vars

\* C12: each debouncer has at most one timeout pending, and the timeout that
\* expires is the one the last keyup set: the callback gets that keyup's
\* event and no other timeout of the burst is left to run it again.
C12_DebounceCoalescing ==
    /\ [](Len(hlTimer) <= 1 /\ Len(recTimer) <= 1)
    /\ [][(recTimer # <<>> /\ recTimer' = Tail(recTimer)) =>
              /\ recTimer[Len(recTimer)].latest
              /\ obs'.op = "record"
              /\ obs'.event = recTimer[Len(recTimer)].event
              /\ recTimer' = <<>>]_vars
    /\ [][(hlTimer # <<>> /\ hlTimer' = Tail(hlTimer)) =>
              (hlTimer[Len(hlTimer)].latest /\ hlTimer' = <<>>)]_vars

\* a keyup arrived while the timeouts of an earlier keyup were pending
C12_Witness ==
    /\ Len(hlTimer) = 1 /\ hlTimer[1].replaced
    /\ Len(recTimer) = 1 /\ recTimer[1].replaced
    /\ recTimer[1].event = UndoEvent

\* C13: `at` is -1 or the index of a record stored in the history.
C13_HistoryCursor ==
    at = -1 \/ (0 <= at /\ at < Len(history) /\ HistoryGet(history, at) # Hole)

\* C15: an undo at at <= 0 and a redo at the last index (or on the empty
\* history) replace neither the content nor the selection, and leave `at` at
\* the boundary: -1 on the empty history, else 0 for the undo and the last
\* index for the redo.
C15_HistoryBoundary ==
    /\ [][(obs' # obs /\ UndoPressed' /\ at <= 0) =>
              /\ editor' = editor /\ sel' = sel
              /\ at' = (IF history = <<>> THEN -1 ELSE 0)]_vars
    /\ [][(obs' # obs /\ RedoPressed' /\ at >= Len(history) - 1) =>
              /\ editor' = editor /\ sel' = sel
              /\ at' = Len(history) - 1]_vars

\* C16: when the 300 ms callback has run, the recording is closed.
C16_RecordingCloses == obs.op = "record" => ~recording

RecordTaken ==
    \/ obs.op \in {"record", "paste"}
    \/ obs.op = "keydown" /\ ~isUndo(obs.event) /\ ~isRedo(obs.event)

\* C18: while the editor has no focus, a keydown other than undo/redo, the
\* 300 ms callback and a paste leave the history and `at` as they are.
C18_UnfocusedRecordNoOp ==
    [][(~focus /\ obs' # obs /\ RecordTaken') =>
          (history' = history /\ at' = at)]_vars

\* a paste into the blurred editor, with records in the history
C18_Witness ==
    /\ ~focus
    /\ obs.op = "paste" /\ ~obs.thrown /\ ~obs.stored
    /\ at >= 0 /\ HistoryGet(history, at) # Hole
    /\ InnerHTML(editor) # HistoryGet(history, at).html

(***************************************************************************)
(* SpecReplay: the focused editor holds "a"; the user selects any range of *)
(* the text, presses and releases Shift, pastes "b" and undoes.            *)
(***************************************************************************)
ShiftKey == KeyEvent("Shift", TRUE, FALSE, FALSE, "ShiftLeft")

ReplayInit ==
    /\ Constructed({OneNode(<<"a">>)}, {<<"\t">>}, {"none"}, {TRUE})
    /\ sel \in Selections(editor)
    /\ obs = StartObs(TRUE)

ReplayNext ==
    \/ \E s \in Selections(editor) : Select(s)
    \/ Keydown(ShiftKey, MaxCycle, MaxReplayed)
    \/ Keyup(ShiftKey)
    \/ FireHighlight
    \/ FireRecord(MaxReplayed)
    \/ Keydown(UndoEvent, MaxCycle, MaxReplayed)
    \/ Paste(<<"b">>, MaxCycle, MaxReplayed)

SpecReplay == ReplayInit /\ [][ReplayNext]_vars

\* C14: a record keeps its snapshot and its position for as long as it stays
\* in the history: an undo or a redo changes no record, and a step that
\* stores records changes none up to the index `at` it started from.
C14_RecordsImmutable ==
    [][\A i \in 1..Min(Len(history), Len(history')) :
          (i <= at + 1 \/ ~obs'.stored) => history'[i] = history[i]]_vars

SameSnapshot(r, q) ==
    /\ r # Hole /\ q # Hole
    /\ r.html = q.html
    /\ r.pos.start = q.pos.start
    /\ r.pos.end = q.pos.end

\* C19: the 300 ms callback of the focused editor stores nothing when the
\* content and the saved start and end are those of the record at `at`, and
\* no two adjacent records have the same snapshot, start and end.
C19_RecordDedup ==
    /\ [][(focus /\ obs' # obs /\ obs'.op = "record"
              /\ SameSnapshot(HistoryGet(history, at),
                              HistoryRecord(InnerHTML(editor), Save(editor, sel))))
             => (history' = history /\ at' = at)]_vars
    /\ [](\A i \in 1..(Len(history) - 1) : ~SameSnapshot(history[i], history[i + 1]))

\* C20: an undo right after a paste of non-empty text into the focused
\* editor sets the content to the serialization the paste found.
C20_PasteUndo ==
    [][(focus /\ obs.op = "paste" /\ obs.arg # <<>> /\ UndoPressed') =>
          InnerHTML(editor') = obs.html]_vars

(***************************************************************************)
(* SpecRestore: restore is called once with any position, in range or      *)
(* not, on a tree of one or two text nodes or of no text node, whatever    *)
(* the selection was.                                                      *)
(***************************************************************************)
RestoreTrees ==
    {[firstChild |-> 1, nodes |-> <<ElemNode("br", 0, 0)>>]}
    \cup {OneNode(t) : t \in NodeTexts}
    \cup {[firstChild |-> 1, nodes |-> <<TextNode(t, 2), TextNode(u, 0)>>] :
             t \in NodeTexts, u \in NodeTexts}

Offsets == 0..(2 * MaxNodeLen + 1)

RestoreInit ==
    /\ Constructed(RestoreTrees, {<<"\t">>}, {"none"}, {FALSE})
    /\ sel \in Selections(editor) \cup ElementSelections(editor)
    /\ obs = StartObs(TRUE)

\* this.restore(pos); obs.pos holds the position passed
RestoreCall(pos) ==
    /\ obs.op = "init"
    /\ Commit(DoRestore(Current, pos))
    /\ obs' = [Observe("restore", NoEvent, <<>>, DoRestore(Current, pos)) EXCEPT !.pos = pos]
    /\ UNCHANGED <<tab, hl, focus, hlTimer, recTimer, attached>>

SpecRestore ==
    /\ RestoreInit
    /\ [][\E start \in Offsets, end \in Offsets, dir \in {NoDirection, "->", "<-"} :
              RestoreCall(Position(start, end, dir))]_vars

\* C17: restore with a start or an end past the length of the text, or on a
\* tree without a text node, leaves the selection as it was and fails with
\* an exception the caller gets.
C17_PositionNotFound ==
    [][(/\ obs.op = "init" /\ obs'.op = "restore"
        /\ \/ Max(obs'.pos.start, obs'.pos.end) > Len(TextContent(editor))
           \/ TextNodes(editor) = {})
       => (sel' = sel /\ obs'.thrown)]_vars

\* a backward selection across two nodes survived a restore whose start is
\* in the text and whose end is past it
C17_Witness ==
    /\ obs.op = "restore" /\ obs.thrown
    /\ obs.pos.start < Len(TextContent(editor))
    /\ obs.pos.end > Len(TextContent(editor))
    /\ sel.anchorNode = 2 /\ sel.focusNode = 1

====
